---- MODULE Spec2Model ----
(***************************************************************************)
(* State-machine model of the Substack post cache (src/src/post-cache.ts,  *)
(* the disk-cache version, lines 1-311), of the feed fetcher it calls      *)
(* (rss-fetcher.ts) and of the server start-up and tool-call entry         *)
(* (src/src/export.ts, lines 317-537).                                     *)
(*                                                                         *)
(* An `await` on I/O or on the index (the feed fetch, addAsync,             *)
(* searchAsync) suspends the handler until a later turn of the event loop, *)
(* and a tool call that arrives meanwhile runs its own handler; an `await` *)
(* on a method that returns without such I/O resumes in the same turn.     *)
(* The actions below are the runs between two such suspensions (Spec).      *)
(*                                                                         *)
(* The call_tool handler and the query methods past the freshness gate are *)
(* functions of the request and of the collection; HandlerSpec applies     *)
(* them, call by call, to every request and collection of a bounded set.   *)
(***************************************************************************)
EXTENDS Integers, Sequences, FiniteSets, TLC

\* ------------------------------------------------------------------ bounds
MaxTime    == 3     \* the clock runs over 0..MaxTime
MaxFeedLen == 2     \* the feed returns at most this many items
MaxArg     == 3     \* numeric tool arguments run over -1..MaxArg

\* --------------------------------------------------------------- constants
CACHE_VERSION == "1.0.0"
FEED_URL      == "https://fejl40.substack.com/feed"
cacheTTL      == 2      \* this.cacheTTL, in clock units (1 unit = 500 ms, TTL = 1000 ms)
Null          == -1     \* lastFetched: Date | null
InvalidDate   == -2     \* a Date whose time value is NaN
NoDate        == -1     \* item.pubDate missing in the feed item

Main    == "main"
Queries == {"q1", "q2"}
Procs   == {Main} \cup Queries
\* the tools that matter to the cache: one that reads this.posts only, and the
\* one that also searches the index. Which of them a call is for plays no part
\* before the freshness gate is behind it, so the actions draw it there.
Tools   == {"list_recent_posts", "search_posts"}

Times == 0..MaxTime

\* ------------------------------------------------- dates and their encoding
\* Date.prototype.toISOString, for a valid date (it throws on an invalid one)
ToISOString(d) == "T" \o ToString(d)

\* new Date(string): the time the string denotes, NaN when it denotes none
ParseDate(s) ==
  IF \E t \in Times : ToISOString(t) = s
    THEN CHOOSE t \in Times : ToISOString(t) = s
    ELSE InvalidDate

\* ------------------------------------------------------------- feed source
\* what rss-parser hands over: guid / link ("" when missing), pubDate
\* (a time, NoDate when missing), title (its characters, none when missing).
\* Two distinct articles, and a second item that repeats the guid and link of
\* the first under another date and another spelling of its title.
FeedItems ==
  { [guid |-> "g1", link |-> "u1", pubDate |-> 2, title |-> << "G", "o" >>],
    [guid |-> "g2", link |-> "u2", pubDate |-> 1, title |-> << "o" >>],
    [guid |-> "g1", link |-> "u1", pubDate |-> 0, title |-> << "g", "o" >>] }

\* item.title || 'Untitled'
Untitled == << "U" >>

\* the sequences of at most n items of S, in every order, no item listed twice
\* (two different items of FeedItems already carry the same guid and link)
RECURSIVE SeqsUpTo(_, _)
SeqsUpTo(S, n) ==
  IF n = 0 THEN { <<>> }
  ELSE LET shorter == SeqsUpTo(S, n - 1)
       IN  shorter \cup UNION { { Append(s, x) : x \in S \ { s[i] : i \in 1..Len(s) } }
                                 : s \in shorter }

Feeds == SeqsUpTo(FeedItems, MaxFeedLen)

\* feed.items.map(...) of fetchSubstackFeed, evaluated at clock time t
MapItem(item, t) ==
  [ id      |-> IF item.guid # "" THEN item.guid
                ELSE IF item.link # "" THEN item.link
                ELSE "post-" \o ToString(t),
    link    |-> item.link,
    pubDate |-> IF item.pubDate # NoDate THEN item.pubDate ELSE t,
    title   |-> IF item.title # <<>> THEN item.title ELSE Untitled ]

MapFeed(feed, t) == [ i \in 1..Len(feed) |-> MapItem(feed[i], t) ]

\* ------------------------------------------------------------ the snapshot
\* posts.map(post => ({...post, pubDate: post.pubDate.toISOString()}))
EncodePosts(ps) ==
  [ i \in 1..Len(ps) |->
      [ id |-> ps[i].id, link |-> ps[i].link, pubDate |-> ToISOString(ps[i].pubDate),
        title |-> ps[i].title ] ]

\* (variant) a load that hands the stored posts back in reverse order
RestorePostsReversed(ds) ==
  [ i \in 1..Len(ds) |->
      [ id |-> ds[Len(ds) + 1 - i].id, link |-> ds[Len(ds) + 1 - i].link,
        pubDate |-> ParseDate(ds[Len(ds) + 1 - i].pubDate),
        title |-> ds[Len(ds) + 1 - i].title ] ]

\* diskCache.posts.map(post => ({...post, pubDate: new Date(post.pubDate)}))
RestorePosts(ds) ==
  [ i \in 1..Len(ds) |->
      [ id |-> ds[i].id, link |-> ds[i].link, pubDate |-> ParseDate(ds[i].pubDate),
        title |-> ds[i].title ] ]

NoFile      == [ state |-> "absent",  version |-> "", feedUrl |-> "", lastFetched |-> "", posts |-> <<>> ]
CorruptFile == [ state |-> "corrupt", version |-> "", feedUrl |-> "", lastFetched |-> "", posts |-> <<>> ]

DiskFile(version, url, fetchedAt, ps) ==
  [ state |-> "ok", version |-> version, feedUrl |-> url,
    lastFetched |-> ToISOString(fetchedAt), posts |-> EncodePosts(ps) ]

\* the post lists an earlier run of the server can have left on disk
StoredPosts ==
  << [id |-> "g1", link |-> "u1", pubDate |-> 2, title |-> << "G", "o" >>],
     [id |-> "g2", link |-> "u2", pubDate |-> 1, title |-> << "o" >>] >>

\* the files the server can find at start-up: none, an unparseable one, one of
\* another version, one of another feed, and usable ones (empty and not)
InitialFiles ==
  { NoFile,
    CorruptFile,
    DiskFile("0.9.0", FEED_URL, 0, StoredPosts),
    DiskFile(CACHE_VERSION, "https://other.substack.com/feed", 0, StoredPosts),
    DiskFile(CACHE_VERSION, FEED_URL, 0, <<>>),
    DiskFile(CACHE_VERSION, FEED_URL, 0, StoredPosts) }

\* ------------------------------------------------------------------- state
VARIABLES
  disk,         \* the file ~/.cache/substack-mcp/posts.json
  posts,        \* this.posts
  searchIndex,  \* this.searchIndex: the ids of the documents added to it
  lastFetched,  \* this.lastFetched (Null, or a time)
  now,          \* Date.now()
  pc,           \* where main() and each tool call stand
  todo,         \* rebuildSearchIndex: the ids of the posts its loop has still to add
  loaded,       \* initialize: loadedFromDisk
  fetch,        \* what became of the operation's call of fetchSubstackFeed
  view,         \* the Document a pending searchAsync was called on
  writable,     \* the environment: whether writeFileSync on the cache file succeeds
  request,      \* the call_tool request being handled (handler specification)
  response,     \* what the call_tool handler returned for it
  fetcher,      \* a call of fetchSubstackFeed: its locals and what it did (fetcher specification)
  exported      \* a call of exportToJSON: its arguments and what it did (export specification)

vars ==
  << disk, posts, searchIndex, lastFetched, now, pc, todo, loaded, fetch, view, writable,
     request, response, fetcher, exported >>

\* a pending search holds the Document that was this.searchIndex when it was
\* issued: the live one, or one replaced since (its contents as they were then)
NoView == [ live |-> FALSE, ids |-> {} ]
Live   == [ live |-> TRUE,  ids |-> {} ]

\* an argument of a tool call as the handler finds it in request.params.arguments:
\* absent, or a JSON number, string or boolean. A string is kept twice: as an
\* opaque value (str: URLs, dates) and by its characters (text: queries, titles)
Missing  == [ kind |-> "missing", num |-> 0, str |-> "", text |-> <<>>, flag |-> FALSE ]
Num(n)   == [ kind |-> "number",  num |-> n, str |-> "", text |-> <<>>, flag |-> FALSE ]
Str(s)   == [ kind |-> "string",  num |-> 0, str |-> s,  text |-> <<>>, flag |-> FALSE ]
Text(cs) == [ kind |-> "string",  num |-> 0, str |-> "", text |-> cs,   flag |-> FALSE ]
Bool(b)  == [ kind |-> "boolean", num |-> 0, str |-> "", text |-> <<>>, flag |-> b ]

NoArguments ==
  [ query |-> Missing, limit |-> Missing, offset |-> Missing, title |-> Missing,
    exact |-> Missing, url |-> Missing, start_date |-> Missing, end_date |-> Missing ]

\* no call is being handled
NoRequest ==
  [ name |-> "", hasArgs |-> FALSE, args |-> NoArguments,
    refreshThrows |-> FALSE, hits |-> << >>, searchThrows |-> FALSE ]

NoResponse ==
  [ kind |-> "none", isError |-> FALSE, value |-> << >>, text |-> << >>, error |-> "" ]

\* no call of fetchSubstackFeed is being followed
NoFetcher ==
  [ pc |-> "idle", retries |-> 0, attempt |-> 0, calls |-> 0, outcomes |-> << >>,
    waited |-> << >>, lastError |-> "", result |-> << >>, error |-> "" ]

\* no call of exportToJSON has been made
NoExport ==
  [ pc |-> "idle", outputPath |-> << >>, home |-> << >>, writeOk |-> FALSE,
    thrown |-> FALSE, error |-> "", path |-> << >>, content |-> << >> ]

Init ==
  /\ exported = NoExport
  /\ request = NoRequest
  /\ response = NoResponse
  /\ fetcher = NoFetcher
  /\ disk \in InitialFiles
  /\ posts = <<>>
  /\ searchIndex = {}
  /\ lastFetched = Null
  /\ now = 0
  /\ pc = [ p \in Procs |-> IF p = Main THEN "start" ELSE "idle" ]
  /\ todo = [ p \in Procs |-> <<>> ]
  /\ loaded = FALSE
  /\ fetch = [ p \in Procs |-> "none" ]
  /\ view = [ q \in Queries |-> NoView ]
  /\ writable \in BOOLEAN

\* ----------------------------------------------------------------- helpers
Ids(ps) == { ps[i].id : i \in 1..Len(ps) }

\* the ids of a post list, in its order (what `for (const post of this.posts)`
\* passes to addAsync)
IdsOf(ps) == [ i \in 1..Len(ps) |-> ps[i].id ]

\* Array.prototype.slice(from, to) for integers (0-based, `to` excluded): a
\* negative index counts from the end, and both are clamped to 0..length
RelativeIndex(i, len) ==
  IF i < 0 THEN (IF len + i > 0 THEN len + i ELSE 0)
  ELSE (IF i < len THEN i ELSE len)

Slice(ps, from, to) ==
  LET k  == RelativeIndex(from, Len(ps))
      hi == RelativeIndex(to, Len(ps))
  IN  IF k >= hi THEN <<>> ELSE [ i \in 1..(hi - k) |-> ps[k + i] ]

\* getRecentPosts, after the freshness gate
GetRecentPosts(ps, limit, offset) == Slice(ps, offset, offset + limit)

\* (variant) the gate letting one more clock unit pass before it refreshes
IsStaleLate(lf, t) ==
  IF lf = Null THEN TRUE
  ELSE IF lf = InvalidDate THEN FALSE
  ELSE t - lf > cacheTTL + 1

\* (variant) the gate with >= in place of >
IsStaleAtTTL(lf, t) ==
  IF lf = Null THEN TRUE
  ELSE IF lf = InvalidDate THEN FALSE
  ELSE t - lf >= cacheTTL

\* (variant) a gate that refreshes on every call
IsStaleAlways(lf, t) == TRUE

\* ensureFreshCache: age > this.cacheTTL, where age is Infinity when lastFetched
\* is null and NaN (every comparison false) when it is an invalid date
IsStale(lf, t) ==
  IF lf = Null THEN TRUE
  ELSE IF lf = InvalidDate THEN FALSE
  ELSE t - lf > cacheTTL

\* (variant) loadFromDisk without the feed URL check
SnapshotAcceptedAnyFeed(file) ==
  /\ file.state = "ok"
  /\ file.version = CACHE_VERSION

\* loadFromDisk: the file exists, parses, and passes the version and feed URL checks
SnapshotAccepted(file) ==
  /\ file.state = "ok"
  /\ file.version = CACHE_VERSION
  /\ file.feedUrl = FEED_URL

\* (variant) loadFromDisk leaving this.lastFetched as the constructor set it
RestoreLastFetchedForgotten(file) == Null

\* loadFromDisk: this.lastFetched = new Date(diskCache.lastFetched)
RestoreLastFetched(file) == ParseDate(file.lastFetched)

\* (variants) a catch clause that always rethrows, and one that never does
KeepsCacheNever(ps) == FALSE
KeepsCacheAlways(ps) == TRUE

\* (variant) a catch clause that serves whatever an earlier fetch left, even nothing
KeepsCacheOnceFetched(ps) == ps # <<>> \/ lastFetched # Null

\* refreshCache, catch clause: the error is swallowed unless posts.length === 0
KeepsCache(ps) == Len(ps) # 0

\* saveToDisk: building the document throws when toISOString meets an invalid date
Encodable(ps, lf) ==
  /\ lf # InvalidDate
  /\ \A i \in 1..Len(ps) : ps[i].pubDate # InvalidDate

\* (variant) a snapshot stamped with the time of the write
SnapshotOfWriteTime(ps, lf, t) == DiskFile(CACHE_VERSION, FEED_URL, t, ps)

\* saveToDisk: the document handed to writeFileSync
SnapshotOf(ps, lf, t) ==
  DiskFile(CACHE_VERSION, FEED_URL, IF lf # Null THEN lf ELSE t, ps)

\* (variant) main connecting the transport before cache.initialize()
ServerConnectedEarly == TRUE

\* main: tool calls reach the handler only once server.connect has run
ServerConnected == pc[Main] = "connected"

\* where an operation goes once the freshness gate is behind it: main() connects
\* the transport; a tool call runs the query proper in the same turn of the
\* event loop, which either has its result at once (this.posts only) or, for
\* search_posts, suspends on searchIndex.searchAsync
AfterGate(p, t) ==
  IF p = Main THEN "connected"
  ELSE IF t = "search_posts" THEN "searching" ELSE "done"

\* where an operation goes when refreshCache throws: main() exits the process,
\* the call_tool handler returns the isError payload
AfterThrow(p) == IF p = Main THEN "exited" ELSE "error"

\* saveToDisk: whether building or writing the document throws inside its try
SaveFails(ps, lf, writeOk) == ~(Encodable(ps, lf) /\ writeOk)

\* (variant) saveToDisk letting its error out: refreshCache's caller sees it
AfterSaveRethrown(p, t, failed) == IF failed THEN AfterThrow(p) ELSE AfterGate(p, t)

\* where an operation goes after refreshCache's saveToDisk: its catch clause
\* logs and swallows the error, so on as after the gate either way
AfterSave(p, t, failed) == AfterGate(p, t)

\* rebuildSearchIndex: an addAsync is issued on the Document that is
\* this.searchIndex when the loop reaches it, and completes on that Document.
\* When another refresh replaces this.searchIndex, the add a loop is waiting
\* for belongs to the replaced Document and never reaches the new one; the
\* adds the loop issues afterwards do.
Orphaned == "-"

Orphan(td, p) ==
  [ r \in Procs |->
      IF r # p /\ pc[r] = "indexing" /\ td[r] # <<>>
        THEN << Orphaned >> \o Tail(td[r])
        ELSE td[r] ]

\* the Document after the pending add of a loop has completed
Added(idx, id) == IF id = Orphaned THEN idx ELSE idx \cup { id }

\* searchPosts: this.searchIndex.searchAsync(...) is called on the live Document
Capture(v, p, target) == IF target = "searching" THEN [v EXCEPT ![p] = Live] ELSE v

\* rebuildSearchIndex: this.searchIndex = new Document(...); a search pending on
\* the old Document keeps it, with what it held then
Detach(v, idx) ==
  [ q \in Queries |-> IF v[q].live THEN [ live |-> FALSE, ids |-> idx ] ELSE v[q] ]

\* searchPosts: the ids the pending search finds documents for
SearchHits(q) == IF view[q].live THEN searchIndex ELSE view[q].ids

\* ----------------------------------------------------------------- actions
\* initialize -> loadFromDisk, up to its first await (or its return)
LoadFromDisk ==
  /\ pc[Main] = "start"
  /\ IF SnapshotAccepted(disk)
       THEN LET restored == RestorePosts(disk.posts)
            IN  /\ posts' = restored
                /\ lastFetched' = RestoreLastFetched(disk)
                /\ searchIndex' = {}
                /\ todo' = [todo EXCEPT ![Main] = IdsOf(restored)]
                /\ loaded' = TRUE
                /\ fetch' = fetch
                /\ pc' = [pc EXCEPT ![Main] =
                            IF restored = <<>> THEN "initCheck" ELSE "loadIndexing"]
       ELSE \* return false; initialize calls refreshCache, which calls the fetcher
            /\ loaded' = FALSE
            /\ fetch' = [fetch EXCEPT ![Main] = "pending"]
            /\ pc' = [pc EXCEPT ![Main] = "fetching"]
            /\ UNCHANGED << posts, lastFetched, searchIndex, todo >>
  /\ UNCHANGED << disk, now, view, writable, request, response, fetcher,
                  exported >>

\* rebuildSearchIndex called by loadFromDisk: one addAsync completes; after the
\* last one loadFromDisk returns true
LoadIndexAdd ==
  /\ pc[Main] = "loadIndexing"
  /\ searchIndex' = searchIndex \cup { Head(todo[Main]) }
  /\ todo' = [todo EXCEPT ![Main] = Tail(todo[Main])]
  /\ pc' = [pc EXCEPT ![Main] = IF Tail(todo[Main]) # <<>> THEN "loadIndexing" ELSE "initCheck"]
  /\ UNCHANGED << disk, posts, lastFetched, now, loaded, fetch, view, writable, request, response, fetcher,
                  exported >>

\* initialize, after loadFromDisk returned true: ensureFreshCache
InitCheck ==
  /\ pc[Main] = "initCheck"
  /\ IF IsStale(lastFetched, now)
       THEN /\ pc' = [pc EXCEPT ![Main] = "fetching"]
            /\ fetch' = [fetch EXCEPT ![Main] = "pending"]
       ELSE /\ pc' = [pc EXCEPT ![Main] = AfterGate(Main, "none")]
            /\ fetch' = fetch
  /\ UNCHANGED << disk, posts, searchIndex, lastFetched, now, todo, loaded, view, writable, request, response, fetcher,
                  exported >>

\* the call_tool handler calls a query of the cache for tool t: ensureFreshCache
\* and, when the cache is fresh, the query proper
Begin(q, t) ==
  /\ ServerConnected
  /\ pc[q] = "idle"
  /\ IF IsStale(lastFetched, now)
       THEN /\ pc' = [pc EXCEPT ![q] = "fetching"]
            /\ fetch' = [fetch EXCEPT ![q] = "pending"]
            /\ view' = view
       ELSE /\ pc' = [pc EXCEPT ![q] = AfterGate(q, t)]
            /\ fetch' = [fetch EXCEPT ![q] = "none"]
            /\ view' = Capture(view, q, AfterGate(q, t))
  /\ UNCHANGED << disk, posts, searchIndex, lastFetched, now, todo, loaded, writable, request, response, fetcher,
                  exported >>

\* (variant) a refresh that never writes the snapshot
SaveToDiskSkipped(file, ps, lf, t, writeOk) == file

\* saveToDisk, called by refreshCache once the index is rebuilt: the file after
\* it; writeOk is whether writeFileSync succeeds (every failure is swallowed)
SaveToDisk(file, ps, lf, t, writeOk) ==
  IF Encodable(ps, lf) /\ writeOk THEN SnapshotOf(ps, lf, t) ELSE file

\* refreshCache: fetchSubstackFeed resolved; swap the collection, stamp it and
\* start rebuildSearchIndex (new Document, loop up to its first addAsync); with
\* nothing to add the loop is over at once, the snapshot is written and the
\* operation goes on
FetchOk(p, feed, t) ==
  /\ pc[p] = "fetching"
  /\ LET fetched == MapFeed(feed, now)
         target  == IF fetched = <<>>
                      THEN AfterSave(p, t, SaveFails(fetched, now, writable))
                      ELSE "indexing"
     IN  /\ posts' = fetched
         /\ lastFetched' = now
         /\ searchIndex' = {}
         /\ todo' = [Orphan(todo, p) EXCEPT ![p] = IdsOf(fetched)]
         /\ disk' = IF fetched = <<>>
                      THEN SaveToDisk(disk, fetched, now, now, writable)
                      ELSE disk
         /\ pc' = [pc EXCEPT ![p] = target]
         /\ view' = Capture(Detach(view, searchIndex), p, target)
         /\ fetch' = [fetch EXCEPT ![p] = "ok"]
  /\ UNCHANGED << now, loaded, writable, request, response, fetcher,
                  exported >>

\* (variant) a catch clause that stamps the failed attempt as a fetch
FetchFailStamped(p, t) ==
  /\ pc[p] = "fetching"
  /\ LET target == IF KeepsCache(posts) THEN AfterGate(p, t) ELSE AfterThrow(p)
     IN  /\ pc' = [pc EXCEPT ![p] = target]
         /\ view' = Capture(view, p, target)
         /\ fetch' = [fetch EXCEPT ![p] = "failed"]
  /\ lastFetched' = now
  /\ UNCHANGED << disk, posts, searchIndex, now, todo, loaded, writable, request, response,
                  fetcher, exported >>

\* refreshCache: fetchSubstackFeed threw; the catch clause, and what follows it
FetchFail(p, t) ==
  /\ pc[p] = "fetching"
  /\ LET target == IF KeepsCache(posts) THEN AfterGate(p, t) ELSE AfterThrow(p)
     IN  /\ pc' = [pc EXCEPT ![p] = target]
         /\ view' = Capture(view, p, target)
         /\ fetch' = [fetch EXCEPT ![p] = "failed"]
  /\ UNCHANGED << disk, posts, searchIndex, lastFetched, now, todo, loaded, writable, request, response, fetcher,
                  exported >>

\* rebuildSearchIndex called by refreshCache: the pending addAsync completes
\* and the loop issues the next one; after the last one refreshCache goes on
\* to saveToDisk, which writes this.posts and this.lastFetched as they are now,
\* and the operation goes on
IndexAdd(p, t) ==
  /\ pc[p] = "indexing"
  /\ searchIndex' = Added(searchIndex, Head(todo[p]))
  /\ todo' = [todo EXCEPT ![p] = Tail(todo[p])]
  /\ IF Tail(todo[p]) # <<>>
       THEN /\ pc' = pc
            /\ disk' = disk
            /\ view' = view
       ELSE LET target == AfterSave(p, t, SaveFails(posts, lastFetched, writable))
            IN  /\ pc' = [pc EXCEPT ![p] = target]
                /\ disk' = SaveToDisk(disk, posts, lastFetched, now, writable)
                /\ view' = Capture(view, p, target)
  /\ UNCHANGED << posts, lastFetched, now, loaded, fetch, writable, request, response, fetcher,
                  exported >>

\* searchPosts: searchAsync resolves with SearchHits(q) and each hit is looked
\* up in this.posts as it is now; the handler has its result
Search(q) ==
  /\ pc[q] = "searching"
  /\ pc' = [pc EXCEPT ![q] = "done"]
  /\ view' = [view EXCEPT ![q] = NoView]
  /\ UNCHANGED << disk, posts, searchIndex, lastFetched, now, todo, loaded, fetch, writable, request, response, fetcher,
                  exported >>

\* the handler has returned its result to the client: the call is over
Respond(q) ==
  /\ pc[q] = "done"
  /\ pc' = [pc EXCEPT ![q] = "idle"]
  /\ fetch' = [fetch EXCEPT ![q] = "none"]
  /\ UNCHANGED << disk, posts, searchIndex, lastFetched, now, todo, loaded, view, writable, request, response, fetcher,
                  exported >>

\* the handler's catch clause has returned the isError payload; the response leaves
ReturnError(q) ==
  /\ pc[q] = "error"
  /\ pc' = [pc EXCEPT ![q] = "idle"]
  /\ fetch' = [fetch EXCEPT ![q] = "none"]
  /\ UNCHANGED << disk, posts, searchIndex, lastFetched, now, todo, loaded, view, writable, request, response, fetcher,
                  exported >>

\* time passes
Tick ==
  /\ now < MaxTime
  /\ now' = now + 1
  /\ UNCHANGED << disk, posts, searchIndex, lastFetched, pc, todo, loaded, fetch, view, writable, request, response, fetcher,
                  exported >>

Next ==
  \/ LoadFromDisk
  \/ LoadIndexAdd
  \/ InitCheck
  \/ \E q \in Queries, t \in Tools : Begin(q, t)
  \/ \E p \in Procs, feed \in Feeds, t \in Tools : FetchOk(p, feed, t)
  \/ \E p \in Procs, t \in Tools : FetchFail(p, t)
  \/ \E p \in Procs, t \in Tools : IndexAdd(p, t)
  \/ \E q \in Queries : Search(q)
  \/ \E q \in Queries : Respond(q)
  \/ \E q \in Queries : ReturnError(q)
  \/ Tick

Spec == Init /\ [][Next]_vars

TypeOK ==
  /\ now \in Times
  /\ lastFetched \in Times \cup {Null, InvalidDate}
  /\ pc[Main] \in {"start", "loadIndexing", "initCheck", "fetching", "indexing",
                   "connected", "exited"}
  /\ \A q \in Queries :
       /\ pc[q] \in {"idle", "fetching", "indexing", "searching", "done", "error"}
       /\ pc[q] = "idle" => fetch[q] = "none"
       /\ view[q].live => pc[q] = "searching"


\* ------------------------------------------------------------------ claims
InRefresh(p) == pc[p] \in {"fetching", "indexing"}

SortedDesc(ps) ==
  \A i, j \in 1..Len(ps) : i < j => ps[i].pubDate >= ps[j].pubDate

UniqueIds(ps)   == \A i, j \in 1..Len(ps) : ps[i].id = ps[j].id => i = j
UniqueLinks(ps) == \A i, j \in 1..Len(ps) : ps[i].link = ps[j].link => i = j

\* C1: a refresh whose feed fetch fails while the collection is non-empty
\* changes nothing in the collection - neither the step that starts the attempt
\* nor the step in which the fetch fails - so getRecentPosts(1, 0) gives the
\* same article before and after, and the operation goes on without an error.
C1_FailedRefreshKeepsCollection ==
  [][ \A p \in Procs :
        /\ (pc[p] # "fetching" /\ pc'[p] = "fetching") => posts' = posts
        /\ (pc[p] = "fetching" /\ fetch'[p] = "failed" /\ posts # <<>>)
             => /\ posts' = posts
                /\ GetRecentPosts(posts', 1, 0) = GetRecentPosts(posts, 1, 0)
                /\ pc'[p] \notin {"error", "exited"}
                /\ pc'[p] \in (IF p = Main THEN {"connected"} ELSE {"searching", "done"}) ]_vars

\* a tool call whose refresh failed returned a result from the collection it kept
C1_Witness ==
  \E q \in Queries : pc[q] = "done" /\ fetch[q] = "failed" /\ posts # <<>>

\* C2: on a cold start (no snapshot adopted, nothing in memory) a failed feed
\* fetch makes initialize fail: main exits, the transport is never connected,
\* no tool call is ever served and the collection stays empty.
C2_ColdStartFailurePropagates ==
  (~loaded /\ fetch[Main] = "failed")
    => /\ pc[Main] = "exited"
       /\ posts = <<>>
       /\ lastFetched = Null
       /\ \A q \in Queries : pc[q] = "idle"

C2_Witness == pc[Main] = "exited" /\ ~loaded /\ fetch[Main] = "failed"

C4_SortedAfterRefresh ==
  (\E p \in Procs : fetch[p] = "ok") => SortedDesc(posts)

\* C5: after every successful refresh no two articles share an id and no two
\* share a link.
C5_UniqueAfterRefresh ==
  (\E p \in Procs : fetch[p] = "ok") => (UniqueIds(posts) /\ UniqueLinks(posts))

\* C6: right after loadFromDisk, a snapshot is adopted only if its version and
\* its feed URL both match; one that fails either check (or is absent or
\* unreadable) leaves loadedFromDisk false and the collection, the index and
\* lastFetched in their initial state.
C6_SnapshotValidation ==
  (pc[Main] \in {"loadIndexing", "initCheck"} \/ (pc[Main] = "fetching" /\ ~loaded))
    => /\ loaded => (disk.state = "ok" /\ disk.version = CACHE_VERSION /\ disk.feedUrl = FEED_URL)
       /\ (disk.state # "ok" \/ disk.version # CACHE_VERSION \/ disk.feedUrl # FEED_URL)
            => /\ ~loaded
               /\ posts = <<>>
               /\ searchIndex = {}
               /\ lastFetched = Null

\* a well-formed snapshot of the right version but of another feed was refused
C6_Witness ==
  /\ pc[Main] = "fetching"
  /\ disk.state = "ok" /\ disk.version = CACHE_VERSION /\ disk.feedUrl # FEED_URL
  /\ disk.posts # <<>>
  /\ ~loaded /\ posts = <<>>

\* C7: with a valid snapshot, initialize reaches its freshness check holding the
\* snapshot's collection (indexed) and fetch timestamp, and that check contacts
\* the feed source if and only if now - fetchedAt > TTL; otherwise initialize
\* ends without any fetch.
C7_SnapshotAdoption ==
  [][ (pc[Main] = "initCheck" /\ pc'[Main] # "initCheck")
        => /\ loaded
           /\ posts = RestorePosts(disk.posts)
           /\ searchIndex = Ids(posts)
           /\ lastFetched = ParseDate(disk.lastFetched)
           /\ fetch[Main] = "none"
           /\ (pc'[Main] = "fetching") <=> (now - ParseDate(disk.lastFetched) > cacheTTL)
           /\ (pc'[Main] # "fetching") => (pc'[Main] = "connected" /\ fetch'[Main] = "none") ]_vars

\* a fresh snapshot was adopted and the server started without any fetch
C7_Witness ==
  /\ pc[Main] = "connected" /\ loaded /\ fetch[Main] = "none"
  /\ posts # <<>> /\ lastFetched = 0
  /\ \A q \in Queries : pc[q] = "idle"

\* C8: tool calls are served only once initialize has completed: a call is in
\* flight only when the transport is connected; with no snapshot adopted the
\* transport is connected only after a successful full refresh (collection
\* stamped and indexed); and once main has exited no call is ever in flight.
C8_InitializeBeforeServing ==
  /\ (\E q \in Queries : pc[q] # "idle") => pc[Main] = "connected"
  /\ (pc[Main] = "connected" /\ ~loaded)
       => (fetch[Main] = "ok" /\ lastFetched # Null /\ todo[Main] = <<>>)
  /\ pc[Main] = "exited" => (\A q \in Queries : pc[q] = "idle" /\ fetch[q] = "none")

\* a tool call is being served after a start without a snapshot
C8_Witness ==
  /\ pc[Main] = "connected" /\ ~loaded /\ fetch[Main] = "ok"
  /\ \E q \in Queries : pc[q] = "done"

\* C9: no query runs against a collection whose articles are not all in the
\* search index: whenever a search is pending on the live index, that index
\* holds every article of the collection.
C9_NoHalfBuiltIndex ==
  \A q \in Queries :
    (pc[q] = "searching" /\ view[q].live) => Ids(posts) \subseteq searchIndex

\* C10: at most one refresh (feed fetch and swap) is in progress at any time.
C10_NoOverlappingRefresh ==
  Cardinality({ p \in Procs : InRefresh(p) }) <= 1

\* the step in which operation p gets past the freshness gate to its read
PassesGate(p) ==
  /\ pc[p] \in {"idle", "fetching", "indexing"}
  /\ pc'[p] \in {"searching", "done"}

\* C11: no tool call reads data older than the TTL without having tried a
\* refresh: in the step in which a call gets past the gate to its read, if the
\* data is then older than the TTL (now - lastFetched > TTL), the call has
\* called the feed source itself (and that fetch succeeded or failed) -
\* whether the data came from a refresh or from an adopted snapshot.
C11_NoStaleReadWithoutRefresh ==
  [][ \A q \in Queries :
        (PassesGate(q) /\ (lastFetched' = Null \/ now' - lastFetched' > cacheTTL))
          => fetch'[q] \in {"ok", "failed"} ]_vars

\* a call has its result from an adopted snapshot that is older than the TTL
\* and was never refreshed successfully: its own fetch failed
C11_Witness ==
  /\ loaded /\ fetch[Main] # "ok"
  /\ lastFetched = 0 /\ now - lastFetched > cacheTTL
  /\ \E q \in Queries : pc[q] = "done" /\ fetch[q] = "failed"
  /\ \A q \in Queries : fetch[q] # "ok"

\* the step in which operation p's refresh ends after a successful fetch
CompletesRefresh(p) ==
  /\ InRefresh(p)
  /\ pc'[p] \notin {"fetching", "indexing"}
  /\ fetch'[p] = "ok"

\* C12: a failing snapshot write does not affect the refresh: the step that
\* ends a successful refresh while the file cannot be written raises no error
\* (the operation goes on to its read, main to connect), leaves the file as it
\* was, and leaves the collection and lastFetched as the refresh set them, with
\* the index complete.
C12_WriteFailureSwallowed ==
  [][ \A p \in Procs :
        (CompletesRefresh(p) /\ ~writable)
          => /\ pc'[p] \in (IF p = Main THEN {"connected"} ELSE {"searching", "done"})
             /\ disk' = disk
             /\ lastFetched' \in Times
             /\ pc[p] = "indexing"
                  => /\ posts' = posts /\ lastFetched' = lastFetched
                     /\ searchIndex' = Added(searchIndex, Head(todo[p]))
             /\ pc[p] = "fetching"
                  => /\ posts' = <<>> /\ lastFetched' = now
                     /\ searchIndex' = {} ]_vars

\* with no file on disk and none writable, a call refreshed the cache and has
\* its result from the new collection
C12_Witness ==
  /\ ~writable /\ disk = NoFile
  /\ \E q \in Queries : pc[q] = "done" /\ fetch[q] = "ok"
  /\ posts # <<>> /\ searchIndex = Ids(posts) /\ lastFetched > 0

\* C13: the snapshot file changes only in a step that ends a successful
\* refresh, and (the file being writable) every such step writes it, with the
\* collection and fetch time then in memory; a failed refresh, the snapshot
\* load and a call on a fresh cache write nothing. The snapshot is read in the
\* first step of initialize only: main never comes back to it, and
\* loadedFromDisk is settled there.
C13_SnapshotWrittenPerRefresh ==
  [][ /\ disk' # disk => \E p \in Procs : CompletesRefresh(p)
      /\ \A p \in Procs :
           (CompletesRefresh(p) /\ writable)
             => disk' = DiskFile(CACHE_VERSION, FEED_URL, lastFetched', posts')
      /\ pc[Main] # "start" => (pc'[Main] # "start" /\ loaded' = loaded) ]_vars

\* started without a snapshot; a later refresh by a tool call has written one
C13_Witness ==
  /\ writable /\ ~loaded
  /\ disk = DiskFile(CACHE_VERSION, FEED_URL, lastFetched, posts)
  /\ lastFetched > 0 /\ posts # <<>>
  /\ \E q \in Queries : pc[q] = "done" /\ fetch[q] = "ok"

\* C14: snapshot round trip: what saveToDisk has just written, read back the
\* way loadFromDisk reads it (same version, same feed URL), passes the checks
\* and gives the collection that was saved - same articles, same field values
\* (pubDate included), same order - and the same fetch timestamp.
C14_SnapshotRoundTrip ==
  [][ ((\E p \in Procs : CompletesRefresh(p)) /\ writable)
        => /\ SnapshotAccepted(disk')
           /\ RestorePosts(disk'.posts) = posts'
           /\ RestoreLastFetched(disk') = lastFetched' ]_vars

\* a snapshot of two articles, not in date order, has been written by a refresh
C14_Witness ==
  /\ writable
  /\ Len(posts) = 2 /\ posts[1].pubDate < posts[2].pubDate
  /\ disk.state = "ok" /\ Len(disk.posts) = 2
  /\ disk.posts[1].pubDate = ToISOString(posts[1].pubDate)
  /\ disk.lastFetched = ToISOString(lastFetched) /\ lastFetched > 0
  /\ \A p \in Procs : ~InRefresh(p)

\* C15: once initialize is over and no refresh is in progress - that is, after
\* every snapshot adoption and every successful refresh - the ids in the search
\* index are exactly the ids of the collection: none missing, none left over
\* from an earlier collection.
C15_IndexMatchesCollection ==
  (pc[Main] = "connected" /\ \A p \in Procs : ~InRefresh(p))
    => searchIndex = Ids(posts)

\* -------------------------------------------------------- the query methods
\* the query methods of the cache, past the freshness gate, as functions of
\* this.posts (ps) and of their arguments
DefaultLimit     == 10     \* search_posts, list_recent_posts: limit
DefaultOffset    == 0      \* list_recent_posts: offset
DefaultRangeSize == 100    \* get_posts_by_date_range: limit

\* String.prototype.trim and toLowerCase, on the characters used here
IsSpace(c) == c = " "

RECURSIVE TrimStart(_)
TrimStart(cs) ==
  IF cs # <<>> /\ IsSpace(Head(cs)) THEN TrimStart(Tail(cs)) ELSE cs

RECURSIVE TrimEnd(_)
TrimEnd(cs) ==
  IF cs # <<>> /\ IsSpace(cs[Len(cs)]) THEN TrimEnd(SubSeq(cs, 1, Len(cs) - 1)) ELSE cs

Trim(cs) == TrimEnd(TrimStart(cs))

LowerChar(c) ==
  IF c = "G" THEN "g" ELSE IF c = "O" THEN "o" ELSE IF c = "U" THEN "u" ELSE c

\* (variant) titles compared as they are written
ToLowerCaseKept(cs) == cs

ToLowerCase(cs) == [ i \in 1..Len(cs) |-> LowerChar(cs[i]) ]

\* String.prototype.includes
Includes(cs, part) ==
  \E i \in 0..Len(cs) : i + Len(part) <= Len(cs) /\ SubSeq(cs, i + 1, i + Len(part)) = part

\* (variant) a comparison that leaves the bound itself out
DateLEStrict(a, b) == a # InvalidDate /\ b # InvalidDate /\ a < b

\* Date >= Date and Date <= Date: false as soon as one of them is invalid (NaN)
DateLE(a, b) == a # InvalidDate /\ b # InvalidDate /\ a <= b

\* Array.prototype.find(...) || null, as a list of no or one article
First(matches) == IF matches = <<>> THEN <<>> ELSE << Head(matches) >>

\* (variant) an empty-query test without trim()
IsBlankUntrimmed(cs) == cs = <<>>

\* searchPosts: !query || query.trim() === ''
IsBlank(cs) == cs = <<>> \/ Trim(cs) = <<>>

\* what searchAsync resolved with: one list of ids per indexed field; the ids
\* of all the lists, one after the other
RECURSIVE Flatten(_)
Flatten(hits) ==
  IF hits = <<>> THEN <<>> ELSE Head(hits) \o Flatten(Tail(hits))

\* (variant) the merge of the per-field results without the postIds set
RECURSIVE MergeHitsRepeating(_, _, _)
MergeHitsRepeating(ps, ids, seen) ==
  IF ids = <<>> THEN <<>>
  ELSE First(SelectSeq(ps, LAMBDA p : p.id = Head(ids)))
         \o MergeHitsRepeating(ps, Tail(ids), seen)

\* searchPosts: the loop over the field results: an id not seen yet is added to
\* postIds, looked up in this.posts and, when found, pushed to matchedPosts
RECURSIVE MergeHits(_, _, _)
MergeHits(ps, ids, seen) ==
  IF ids = <<>> THEN <<>>
  ELSE IF Head(ids) \in seen THEN MergeHits(ps, Tail(ids), seen)
  ELSE First(SelectSeq(ps, LAMBDA p : p.id = Head(ids)))
         \o MergeHits(ps, Tail(ids), seen \cup { Head(ids) })

\* searchPosts(query, limit); searchThrows: searchAsync rejected (caught, [])
SearchPosts(ps, query, limit, hits, searchThrows) ==
  IF IsBlank(query) THEN Slice(ps, 0, limit)
  ELSE IF searchThrows THEN <<>>
  ELSE Slice(MergeHits(ps, Flatten(hits), {}), 0, limit)

\* (variant) a range whose bounds are put in order before the filter
GetPostsByDateRangeOrdered(ps, startDate, endDate, limit) ==
  LET lo == IF DateLE(endDate, startDate) THEN endDate ELSE startDate
      hi == IF DateLE(endDate, startDate) THEN startDate ELSE endDate
  IN  Slice(SelectSeq(ps, LAMBDA p : DateLE(lo, p.pubDate) /\ DateLE(p.pubDate, hi)), 0, limit)

\* getPostsByDateRange(startDate, endDate, limit)
GetPostsByDateRange(ps, startDate, endDate, limit) ==
  Slice(SelectSeq(ps, LAMBDA p : DateLE(startDate, p.pubDate) /\ DateLE(p.pubDate, endDate)),
        0, limit)

\* getPostByTitle(title, exact)
GetPostByTitle(ps, title, exact) ==
  IF exact
    THEN First(SelectSeq(ps, LAMBDA p : ToLowerCase(p.title) = ToLowerCase(title)))
    ELSE First(SelectSeq(ps, LAMBDA p : Includes(ToLowerCase(p.title), ToLowerCase(title))))

\* (variant) a lookup that keeps the last article found under the link
GetPostByUrlLast(ps, url) ==
  LET found == SelectSeq(ps, LAMBDA p : p.link = url)
  IN  IF found = <<>> THEN <<>> ELSE << found[Len(found)] >>

\* getPostByUrl(url)
GetPostByUrl(ps, url) == First(SelectSeq(ps, LAMBDA p : p.link = url))

\* ------------------------------------------------------ the call_tool handler
\* zod: z.string(), z.number().optional().default(d), z.boolean().optional()
\* .default(false), z.string().url(): whether parse() accepts the argument
IsString(a)    == a.kind = "string"
IsOptNumber(a) == a.kind \in {"missing", "number"}
IsOptBool(a)   == a.kind \in {"missing", "boolean"}
NotAUrl        == "not a url"
IsUrl(a)       == a.kind = "string" /\ a.str # NotAUrl

NumberOr(a, d) == IF a.kind = "missing" THEN d ELSE a.num
BoolOr(a, d)   == IF a.kind = "missing" THEN d ELSE a.flag

\* the JSON text of a result: results.map(post => ({title, link, ..., pubDate:
\* post.pubDate.toISOString(), ...}))
Render(v) ==
  [ i \in 1..Len(v) |->
      [ title |-> v[i].title, link |-> v[i].link, pubDate |-> ToISOString(v[i].pubDate) ] ]

Renderable(v) == \A i \in 1..Len(v) : v[i].pubDate # InvalidDate

\* (variant) a handler without its catch clause: the error leaves the handler
OnErrorRethrown(message) ==
  [ kind |-> "thrown", isError |-> FALSE, value |-> << >>, text |-> << >>, error |-> message ]

\* the catch clause: { content: [{ text: JSON.stringify({ error }) }], isError: true }
OnError(message) ==
  [ kind |-> "error", isError |-> TRUE, value |-> << >>, text |-> << >>, error |-> message ]

\* return of a list of articles (search_posts, list_recent_posts, date range)
ListResult(v) ==
  IF Renderable(v)
    THEN [ kind |-> "list", isError |-> FALSE, value |-> v, text |-> Render(v), error |-> "" ]
    ELSE OnError("RangeError")

\* (variant) an answer that flags the missing article as an error
PostResultFlagged(found) ==
  IF found = <<>> THEN OnError("Post not found")
  ELSE IF Renderable(found)
    THEN [ kind |-> "post", isError |-> FALSE, value |-> found, text |-> Render(found),
           error |-> "" ]
    ELSE OnError("RangeError")

\* return of one article, or of { error: 'Post not found' } without isError
PostResult(found) ==
  IF found = <<>>
    THEN [ kind |-> "notFound", isError |-> FALSE, value |-> << >>, text |-> << >>,
           error |-> "Post not found" ]
  ELSE IF Renderable(found)
    THEN [ kind |-> "post", isError |-> FALSE, value |-> found, text |-> Render(found),
           error |-> "" ]
    ELSE OnError("RangeError")

\* the names of the `tools` array, which the list_tools handler returns
tools ==
  << "search_posts", "list_recent_posts", "get_post_by_title", "get_post_by_url",
     "get_posts_by_date_range" >>

\* the handler of ListToolsRequestSchema: return { tools }
ToolsResult ==
  [ kind |-> "tools", isError |-> FALSE, value |-> << >>, text |-> tools, error |-> "" ]

\* the tools the README announces ("7 MCP Tools")
ReadmeTools ==
  { "search_posts", "list_recent_posts", "get_post_by_title", "get_post_by_url",
    "get_posts_by_date_range", "generate_citation", "export_to_markdown" }

\* the cases of the switch of the call_tool handler
KnownTools ==
  { "search_posts", "list_recent_posts", "get_post_by_title", "get_post_by_url",
    "get_posts_by_date_range" }

\* the handler of CallToolRequestSchema for request r with this.posts = ps:
\* r.refreshThrows is whether ensureFreshCache throws in the cache method
Handler(r, ps) ==
  LET a == r.args
  IN  IF r.name \notin KnownTools THEN OnError("Unknown tool: " \o r.name)
      ELSE IF ~r.hasArgs THEN OnError("TypeError")
      ELSE IF r.name = "search_posts" THEN
             IF ~IsString(a.query) \/ ~IsOptNumber(a.limit) THEN OnError("ZodError")
             ELSE IF r.refreshThrows THEN OnError("FetchError")
             ELSE ListResult(SearchPosts(ps, a.query.text, NumberOr(a.limit, DefaultLimit),
                                         r.hits, r.searchThrows))
      ELSE IF r.name = "list_recent_posts" THEN
             IF ~IsOptNumber(a.limit) \/ ~IsOptNumber(a.offset) THEN OnError("ZodError")
             ELSE IF r.refreshThrows THEN OnError("FetchError")
             ELSE ListResult(GetRecentPosts(ps, NumberOr(a.limit, DefaultLimit),
                                            NumberOr(a.offset, DefaultOffset)))
      ELSE IF r.name = "get_post_by_title" THEN
             IF ~IsString(a.title) \/ ~IsOptBool(a.exact) THEN OnError("ZodError")
             ELSE IF r.refreshThrows THEN OnError("FetchError")
             ELSE PostResult(GetPostByTitle(ps, a.title.text, BoolOr(a.exact, FALSE)))
      ELSE IF r.name = "get_post_by_url" THEN
             IF ~IsUrl(a.url) THEN OnError("ZodError")
             ELSE IF r.refreshThrows THEN OnError("FetchError")
             ELSE PostResult(GetPostByUrl(ps, a.url.str))
      ELSE   \* get_posts_by_date_range
             IF ~IsString(a.start_date) \/ ~IsString(a.end_date) \/ ~IsOptNumber(a.limit)
               THEN OnError("ZodError")
             ELSE IF r.refreshThrows THEN OnError("FetchError")
             ELSE ListResult(GetPostsByDateRange(ps, ParseDate(a.start_date.str),
                                                 ParseDate(a.end_date.str),
                                                 NumberOr(a.limit, DefaultRangeSize)))

\* --------------------------------------------- the handler, call by call
\* the collections a call can find in the cache: whatever a feed made of them.
\* The handler is checked on collections of one article more than the feeds of
\* the cache, and on one more item: another article under the title of g2.
CachedItems ==
  FeedItems \cup { [guid |-> "g3", link |-> "u3", pubDate |-> 1, title |-> << "o" >>] }

Collections == { MapFeed(feed, 0) : feed \in SeqsUpTo(CachedItems, MaxFeedLen + 1) }

\* argument values: absent, of the wrong type, or of the right one
Numbers     == { Num(n) : n \in -1..MaxArg }
WrongNumber == Str("3")
WrongString == Num(3)
QueryTexts  == { <<>>, << " " >>, << " ", " " >>, << "o" >>, << " ", "g" >> }
TitleTexts  == { <<>>, << "g", "o" >>, << "G", "O" >>, << "o" >>, << "x" >> }
UrlStrings  == { "u1", "u1/", "u2", "u3", "u9", NotAUrl }
DateStrings == { ToISOString(t) : t \in Times } \cup { "not-a-date" }

\* what the index can answer: for each of two indexed fields a list of ids,
\* without repetition inside a list; "g9" is an id no article of the feed has
HitIds  == { "g1", "g2", "g9" }
HitSets == { << f1, f2 >> : f1 \in SeqsUpTo(HitIds, 2), f2 \in SeqsUpTo(HitIds, 2) }
NoHits  == << <<>>, <<>> >>

Call(name, args, throws, hits, searchThrows) ==
  [ name |-> name, hasArgs |-> TRUE, args |-> args,
    refreshThrows |-> throws, hits |-> hits, searchThrows |-> searchThrows ]

\* ensureFreshCache can throw only on the path where refreshCache rethrows
CanThrow(ps) == IF KeepsCache(ps) THEN { FALSE } ELSE BOOLEAN

Requests(ps) ==
  LET none == NoArguments
  IN  { [ NoRequest EXCEPT !.name = n ] : n \in ReadmeTools }
      \cup { Call(n, none, FALSE, NoHits, FALSE) : n \in ReadmeTools \ KnownTools }
      \cup { Call("search_posts", [ none EXCEPT !.query = q, !.limit = l ], th, NoHits, FALSE) :
               q \in { Missing, WrongString } \cup { Text(t) : t \in QueryTexts },
               l \in { Missing, WrongNumber } \cup Numbers, th \in CanThrow(ps) }
      \cup { Call("search_posts", [ none EXCEPT !.query = Text(t), !.limit = l ], FALSE, h, FALSE) :
               t \in { x \in QueryTexts : Trim(x) # <<>> },
               l \in { Missing } \cup Numbers, h \in HitSets }
      \cup { Call("search_posts", [ none EXCEPT !.query = Text(t) ], FALSE, NoHits, TRUE) :
               t \in QueryTexts }
      \cup { Call("list_recent_posts", [ none EXCEPT !.limit = l, !.offset = o ], th, NoHits, FALSE) :
               l \in { Missing, WrongNumber } \cup Numbers,
               o \in { Missing, WrongNumber } \cup Numbers, th \in CanThrow(ps) }
      \cup { Call("get_post_by_title", [ none EXCEPT !.title = t, !.exact = e ], th, NoHits, FALSE) :
               t \in { Missing, WrongString } \cup { Text(x) : x \in TitleTexts },
               e \in { Missing, Bool(TRUE), Bool(FALSE), WrongNumber }, th \in CanThrow(ps) }
      \cup { Call("get_post_by_url", [ none EXCEPT !.url = u ], th, NoHits, FALSE) :
               u \in { Missing, WrongString } \cup { Str(x) : x \in UrlStrings },
               th \in CanThrow(ps) }
      \cup { Call("get_posts_by_date_range",
                  [ none EXCEPT !.start_date = a, !.end_date = b, !.limit = l ], th, NoHits, FALSE) :
               a \in { Missing, WrongString } \cup { Str(x) : x \in DateStrings },
               b \in { Missing, WrongString } \cup { Str(x) : x \in DateStrings },
               l \in { Missing, Num(1), Num(-1) }, th \in CanThrow(ps) }

\* the server is up, the cache holds a collection and no call is in progress
InitHandler ==
  /\ posts \in Collections
  /\ searchIndex = Ids(posts)
  /\ lastFetched = 0
  /\ now = 0
  /\ disk = NoFile
  /\ pc = [ p \in Procs |-> IF p = Main THEN "connected" ELSE "idle" ]
  /\ todo = [ p \in Procs |-> <<>> ]
  /\ loaded = FALSE
  /\ fetch = [ p \in Procs |-> IF p = Main THEN "ok" ELSE "none" ]
  /\ view = [ q \in Queries |-> NoView ]
  /\ writable = TRUE
  /\ request = NoRequest
  /\ response = NoResponse
  /\ fetcher = NoFetcher
  /\ exported = NoExport

\* a call_tool request arrives and the handler answers it
CallTool(r) ==
  /\ request = NoRequest
  /\ request' = r
  /\ response' = Handler(r, posts)
  /\ UNCHANGED << disk, posts, searchIndex, lastFetched, now, pc, todo, loaded, fetch, view, writable, fetcher,
                  exported >>

\* a list_tools request arrives and is answered
ListTools ==
  /\ request = NoRequest
  /\ response' = ToolsResult
  /\ UNCHANGED << disk, posts, searchIndex, lastFetched, now, pc, todo, loaded, fetch, view,
                  writable, request, fetcher,
                  exported >>

\* the response has gone to the client
Reply ==
  /\ request # NoRequest
  /\ request' = NoRequest
  /\ response' = NoResponse
  /\ UNCHANGED << disk, posts, searchIndex, lastFetched, now, pc, todo, loaded, fetch, view, writable, fetcher,
                  exported >>

NextHandler ==
  \/ (request = NoRequest /\ \E r \in Requests(posts) : CallTool(r))
  \/ ListTools
  \/ Reply

HandlerSpec == InitHandler /\ [][NextHandler]_vars

\* --------------------------------------------------- claims on the handler
Lesser(a, b) == IF a < b THEN a ELSE b

\* the first n articles of ps, for n >= 0 (all of them when there are fewer)
FirstN(ps, n) == [ i \in 1..Lesser(n, Len(ps)) |-> ps[i] ]

\* the arguments the tool needs are there and of the right JSON type
WellTyped(r) ==
  LET a == r.args
  IN  /\ r.hasArgs
      /\ r.name = "search_posts" => (a.query.kind = "string" /\ a.limit.kind \in {"missing", "number"})
      /\ r.name = "list_recent_posts"
           => (a.limit.kind \in {"missing", "number"} /\ a.offset.kind \in {"missing", "number"})
      /\ r.name = "get_post_by_title"
           => (a.title.kind = "string" /\ a.exact.kind \in {"missing", "boolean"})
      /\ r.name = "get_post_by_url" => (a.url.kind = "string" /\ a.url.str # "not a url")
      /\ r.name = "get_posts_by_date_range"
           => /\ a.start_date.kind = "string" /\ a.end_date.kind = "string"
              /\ a.limit.kind \in {"missing", "number"}

\* C16: every tool call gets a response and nothing is thrown out of the
\* handler: whatever the tool name, the arguments and the outcome of the cache,
\* the handler returns a payload; an unknown tool, missing or wrongly typed
\* arguments and a refresh that throws give a payload with isError true and an
\* {error: message} text, and nothing else is flagged as an error.
C16_HandlerNeverThrows ==
  request # NoRequest
    => /\ response.kind \in {"list", "post", "notFound", "error"}
       /\ (request.name \notin KnownTools \/ ~WellTyped(request) \/ request.refreshThrows)
            <=> (response.kind = "error" /\ response.isError /\ response.error # "")
       /\ response.kind # "error" => ~response.isError

\* a call whose refresh threw (cold cache, feed down) was answered with the
\* error payload
C16_Witness ==
  /\ request.name = "list_recent_posts" /\ WellTyped(request)
  /\ request.refreshThrows
  /\ response.isError /\ response.error = "FetchError"

\* C17: a get_posts_by_date_range call whose start_date or end_date is a string
\* that denotes no date is answered with the error payload, not with a list.
C17_UnparseableDateIsError ==
  ( /\ request.name = "get_posts_by_date_range" /\ WellTyped(request)
    /\ ~request.refreshThrows
    /\ \/ ParseDate(request.args.start_date.str) = InvalidDate
       \/ ParseDate(request.args.end_date.str) = InvalidDate )
    => (response.kind = "error" /\ response.isError)

\* C18: searchPosts with an empty or all-blank query returns exactly the first
\* `limit` articles of the collection, in its order (all of them when it has
\* fewer), whatever the index would answer - even when the index is failing.
C18_BlankQueryReturnsFirst ==
  ( /\ request.name = "search_posts" /\ WellTyped(request) /\ ~request.refreshThrows
    /\ \A i \in 1..Len(request.args.query.text) : request.args.query.text[i] = " "
    /\ request.args.limit.kind = "number" => request.args.limit.num >= 0 )
    => /\ response.kind = "list"
       /\ response.value
            = FirstN(posts, IF request.args.limit.kind = "number"
                              THEN request.args.limit.num ELSE 10)

\* search("  ", 1) on two articles returned the first one
C18_Witness ==
  /\ request.name = "search_posts"
  /\ request.args.query = Text(<< " ", " " >>) /\ request.args.limit = Num(1)
  /\ Len(posts) = 2
  /\ response.value = << posts[1] >>

\* C19: for a query that is not blank, searchPosts returns articles of the
\* current collection only, each of them under an id the index reported for
\* some field, no id twice even when several fields reported it, and at most
\* `limit` of them.
C19_SearchResultWellFormed ==
  ( /\ request.name = "search_posts" /\ WellTyped(request) /\ ~request.refreshThrows
    /\ \E i \in 1..Len(request.args.query.text) : request.args.query.text[i] # " "
    /\ request.args.limit.kind = "number" => request.args.limit.num >= 0 )
    => /\ response.kind = "list"
       /\ \A i \in 1..Len(response.value) :
            /\ \E j \in 1..Len(posts) : posts[j] = response.value[i]
            /\ \E f \in 1..Len(request.hits) : \E k \in 1..Len(request.hits[f]) :
                 request.hits[f][k] = response.value[i].id
       /\ \A i, j \in 1..Len(response.value) :
            response.value[i].id = response.value[j].id => i = j
       /\ Len(response.value)
            <= (IF request.args.limit.kind = "number" THEN request.args.limit.num ELSE 10)

\* both fields reported both articles; each of them is in the result once
C19_Witness ==
  /\ request.name = "search_posts"
  /\ request.hits = << << "g1", "g2" >>, << "g2", "g1" >> >>
  /\ Len(response.value) = 2
  /\ response.value[1].id = "g1" /\ response.value[2].id = "g2"

\* C20: getRecentPosts(limit, offset) returns the articles at positions
\* offset .. offset + limit - 1 of the collection, in its order, as far as they
\* exist; for an offset at or past the end, or a negative one, the empty list;
\* never an error.
C20_RecentPostsSlice ==
  ( /\ request.name = "list_recent_posts" /\ WellTyped(request) /\ ~request.refreshThrows
    /\ request.args.limit.kind = "number" => request.args.limit.num >= 0 )
    => LET limit  == IF request.args.limit.kind = "number" THEN request.args.limit.num ELSE 10
           offset == IF request.args.offset.kind = "number" THEN request.args.offset.num ELSE 0
       IN  /\ response.kind = "list"
           /\ (offset < 0 \/ offset >= Len(posts)) => response.value = <<>>
           /\ (offset >= 0 /\ offset < Len(posts))
                => response.value
                     = [ i \in 1..Lesser(limit, Len(posts) - offset) |-> posts[offset + i] ]

\* the dates and the limit of a get_posts_by_date_range call, as the cache
\* method receives them
RangeStart == ParseDate(request.args.start_date.str)
RangeEnd   == ParseDate(request.args.end_date.str)
RangeLimit == IF request.args.limit.kind = "number" THEN request.args.limit.num ELSE 100

\* a get_posts_by_date_range call that reached the cache with two real dates
\* and a limit that is absent or not negative
IsRangeCall ==
  /\ request.name = "get_posts_by_date_range" /\ WellTyped(request)
  /\ ~request.refreshThrows
  /\ RangeStart # InvalidDate /\ RangeEnd # InvalidDate
  /\ RangeLimit >= 0

\* C21: getPostsByDateRange(start, end, limit) returns exactly the articles
\* with start <= publishedAt <= end, both bounds included, in the order of the
\* collection, cut to the first `limit` of them.
C21_DateRangeInclusive ==
  IsRangeCall
    => /\ response.kind = "list"
       /\ response.value
            = FirstN(SelectSeq(posts, LAMBDA p : RangeStart <= p.pubDate /\ p.pubDate <= RangeEnd),
                     RangeLimit)

\* articles of dates 2, 1, 0 and the range 0..1 with the default limit: the
\* articles of dates 1 and 0 are returned in that order, both on a bound
C21_Witness ==
  /\ IsRangeCall
  /\ Len(posts) = 3
  /\ posts[1].pubDate = 2 /\ posts[2].pubDate = 1 /\ posts[3].pubDate = 0
  /\ RangeStart = 0 /\ RangeEnd = 1 /\ request.args.limit = Missing
  /\ response.value = << posts[2], posts[3] >>

\* C22: a date range whose start is strictly after its end selects nothing:
\* the call returns the empty list and no error, whatever the collection.
C22_ReversedRangeIsEmpty ==
  ( /\ request.name = "get_posts_by_date_range" /\ WellTyped(request)
    /\ ~request.refreshThrows
    /\ RangeStart # InvalidDate /\ RangeEnd # InvalidDate
    /\ RangeStart > RangeEnd )
    => (response.kind = "list" /\ response.value = <<>> /\ ~response.isError)

\* the range 2..0 on a collection with an article of date 1 gave the empty list
C22_Witness ==
  /\ request.name = "get_posts_by_date_range" /\ WellTyped(request)
  /\ RangeStart = 2 /\ RangeEnd = 0
  /\ \E i \in 1..Len(posts) : posts[i].pubDate = 1
  /\ response.kind = "list" /\ response.value = <<>>

\* two letters that differ at most in case, and the same for two texts
SameLetter(a, b) == a = b \/ {a, b} \in { {"G", "g"}, {"O", "o"}, {"U", "u"} }
EqualNoCase(s, t) == Len(s) = Len(t) /\ \A i \in 1..Len(t) : SameLetter(s[i], t[i])
ContainsNoCase(s, t) ==
  \E k \in 0..(Len(s) - Len(t)) : \A i \in 1..Len(t) : SameLetter(s[k + i], t[i])

\* a get_post_by_title call that reached the cache
IsTitleCall ==
  /\ request.name = "get_post_by_title" /\ WellTyped(request)
  /\ ~request.refreshThrows

\* the positions of the articles whose title the call asks for
TitleMatches ==
  { i \in 1..Len(posts) :
      IF request.args.exact = Bool(TRUE)
        THEN EqualNoCase(posts[i].title, request.args.title.text)
        ELSE ContainsNoCase(posts[i].title, request.args.title.text) }

\* C23: getPostByTitle compares titles without regard to letter case: with
\* exact it returns the first article of the collection whose title equals the
\* argument, without it the first whose title contains the argument, and null
\* (the 'Post not found' answer) when no article qualifies.
C23_TitleLookup ==
  IsTitleCall
    => IF TitleMatches = {}
         THEN response.kind = "notFound" /\ response.value = <<>>
         ELSE /\ response.kind = "post"
              /\ response.value
                   = << posts[CHOOSE i \in TitleMatches : \A j \in TitleMatches : i <= j] >>

\* an exact lookup of "GO" passed over a first article titled "o", which only
\* contains the letters asked for, and returned the second one, titled "Go" or "go"
C23_Witness ==
  /\ IsTitleCall
  /\ request.args.title = Text(<< "G", "O" >>) /\ request.args.exact = Bool(TRUE)
  /\ Len(posts) >= 2
  /\ posts[1].title = << "o" >> /\ posts[2].title # << "G", "O" >>
  /\ response.kind = "post" /\ response.value = << posts[2] >>

\* a get_post_by_url call that reached the cache
IsUrlCall ==
  /\ request.name = "get_post_by_url" /\ WellTyped(request)
  /\ ~request.refreshThrows

\* C24 (as stated): for every article A of the collection, getPostByUrl of A's
\* link and getPostByTitle of A's title with exact = true both return an
\* article with A's id.
C24_LookupsReturnSameId ==
  /\ IsUrlCall
       => \A i \in 1..Len(posts) :
            posts[i].link = request.args.url.str
              => (response.kind = "post" /\ response.value[1].id = posts[i].id)
  /\ (IsTitleCall /\ request.args.exact = Bool(TRUE))
       => \A i \in 1..Len(posts) :
            posts[i].title = request.args.title.text
              => (response.kind = "post" /\ response.value[1].id = posts[i].id)

\* C24 (amended): for every article A of the collection, getPostByUrl of A's
\* link returns an article with A's link and getPostByTitle of A's title with
\* exact = true returns an article with A's title up to letter case; it is A
\* itself, hence of A's id, when no earlier article of the collection has that
\* link, respectively that title up to letter case.
C24_LookupsReturnFirstHolder ==
  /\ IsUrlCall
       => \A i \in 1..Len(posts) :
            posts[i].link = request.args.url.str
              => /\ response.kind = "post"
                 /\ response.value[1].link = posts[i].link
                 /\ (\A j \in 1..(i - 1) : posts[j].link # posts[i].link)
                      => response.value = << posts[i] >>
  /\ (IsTitleCall /\ request.args.exact = Bool(TRUE))
       => \A i \in 1..Len(posts) :
            posts[i].title = request.args.title.text
              => /\ response.kind = "post"
                 /\ EqualNoCase(response.value[1].title, posts[i].title)
                 /\ (\A j \in 1..(i - 1) : ~EqualNoCase(posts[j].title, posts[i].title))
                      => response.value = << posts[i] >>

\* two articles of different ids carry the same title; the exact lookup of the
\* title of the second one returned the first one
C24_Witness ==
  /\ IsTitleCall /\ request.args.exact = Bool(TRUE)
  /\ Len(posts) >= 2
  /\ posts[2].title = request.args.title.text
  /\ posts[1].title = posts[2].title /\ posts[1].id # posts[2].id
  /\ response.kind = "post" /\ response.value = << posts[1] >>

\* C25: getPostByUrl finds an article only under exactly its link; a url no
\* article has is not an error: the cache returns null and the tool answers
\* with the 'Post not found' payload, which is not flagged isError.
C25_UrlLookupExactOrNotFound ==
  IsUrlCall
    => IF \E i \in 1..Len(posts) : posts[i].link = request.args.url.str
         THEN /\ response.kind = "post"
              /\ response.value[1].link = request.args.url.str
         ELSE /\ response.kind = "notFound" /\ response.value = <<>>
              /\ response.error = "Post not found"
              /\ ~response.isError

\* the collection has an article under "u1" and the call asked for "u1/": the
\* answer was 'Post not found', without the error flag
C25_Witness ==
  /\ IsUrlCall
  /\ request.args.url.str = "u1/"
  /\ \E i \in 1..Len(posts) : posts[i].link = "u1"
  /\ response.kind = "notFound" /\ response.error = "Post not found" /\ ~response.isError

\* C26: each of the seven tools the README announces is in the answer of
\* list_tools, and a call_tool request for it is dispatched to its case, never
\* answered with 'Unknown tool: <name>'.
C26_ReadmeToolsServed ==
  /\ response.kind = "tools"
       => \A n \in ReadmeTools : \E i \in 1..Len(response.text) : response.text[i] = n
  /\ (request # NoRequest /\ request.name \in ReadmeTools)
       => response.error # "Unknown tool: " \o request.name

\* ------------------------------------------- fetchSubstackFeed, step by step
\* the retry counts a caller passes (the default is 3)
MaxRetries == 3

\* what can fail inside the try block: parser.parseURL rejects (network, HTTP
\* status, XML), or the mapping of the items throws
Failures == { "ECONNREFUSED", "TypeError" }

\* (variant) a loop that runs once more
MoreAttemptsInclusive(attempt, retries) == attempt <= retries

\* the loop test: attempt < retries
MoreAttempts(attempt, retries) == attempt < retries

\* the test before the backoff: attempt < retries - 1
WaitsAfter(attempt, retries) == attempt < retries - 1

\* the fetcher at the loop test: either the next attempt calls parser.parseURL,
\* or the loop is over and the final error is thrown
LoopTest(f) ==
  IF MoreAttempts(f.attempt, f.retries)
    THEN [ f EXCEPT !.pc = "parsing", !.calls = @ + 1 ]
    ELSE [ f EXCEPT !.pc = "thrown",
                    !.error = "Failed to fetch RSS feed after " \o ToString(f.retries)
                                \o " attempts: "
                                \o (IF f.lastError = "" THEN "undefined" ELSE f.lastError) ]

cacheVars ==
  << disk, posts, searchIndex, lastFetched, now, pc, todo, loaded, fetch, view, writable,
     request, response >>

InitFetcher ==
  /\ fetcher = NoFetcher
  /\ exported = NoExport
  /\ request = NoRequest
  /\ response = NoResponse
  /\ disk = NoFile
  /\ posts = <<>>
  /\ searchIndex = {}
  /\ lastFetched = Null
  /\ now = 0
  /\ pc = [ p \in Procs |-> IF p = Main THEN "start" ELSE "idle" ]
  /\ todo = [ p \in Procs |-> <<>> ]
  /\ loaded = FALSE
  /\ fetch = [ p \in Procs |-> "none" ]
  /\ view = [ q \in Queries |-> NoView ]
  /\ writable = TRUE

\* fetchSubstackFeed(feedUrl, retries) is called: lastError = null, attempt = 0,
\* and the loop is entered
FetchSubstackFeed(retries) ==
  /\ fetcher.pc = "idle"
  /\ fetcher' = LoopTest([ NoFetcher EXCEPT !.retries = retries ])
  /\ UNCHANGED << cacheVars, exported >>

\* parser.parseURL resolved and the items were mapped: return posts
ParseOk(feed) ==
  /\ fetcher.pc = "parsing"
  /\ fetcher' = [ fetcher EXCEPT !.pc = "returned",
                                  !.outcomes = Append(@, "ok"),
                                  !.result = MapFeed(feed, now) ]
  /\ UNCHANGED << cacheVars, exported >>

\* the try block threw e: the catch clause keeps it in lastError, then either
\* starts the backoff timer or goes on to attempt++ and the loop test
ParseFail(e) ==
  /\ fetcher.pc = "parsing"
  /\ LET caught == [ fetcher EXCEPT !.lastError = e, !.outcomes = Append(@, e) ]
     IN  fetcher' =
           IF WaitsAfter(caught.attempt, caught.retries)
             THEN [ caught EXCEPT !.pc = "waiting",
                                  !.waited = Append(@, (2 ^ caught.attempt) * 1000) ]
             ELSE LoopTest([ caught EXCEPT !.attempt = @ + 1 ])
  /\ UNCHANGED << cacheVars, exported >>

\* the backoff timer fired: attempt++ and the loop test
TimerFires ==
  /\ fetcher.pc = "waiting"
  /\ fetcher' = LoopTest([ fetcher EXCEPT !.attempt = @ + 1 ])
  /\ UNCHANGED << cacheVars, exported >>

NextFetcher ==
  \/ \E retries \in 0..MaxRetries : FetchSubstackFeed(retries)
  \/ \E feed \in Feeds : ParseOk(feed)
  \/ \E e \in Failures : ParseFail(e)
  \/ TimerFires

\* parser.parseURL settles (rss-parser times a request out) and a timer that
\* was set fires: a call that can take a step takes one
FetcherSpec == InitFetcher /\ [][NextFetcher]_vars /\ WF_vars(NextFetcher)

\* ------------------------------------------------- claims on the fetcher
Terminated == fetcher.pc \in {"returned", "thrown"}

Failed(i) == fetcher.outcomes[i] \in Failures

\* what C27 says of a call, at every moment of it
RetryDiscipline ==
  /\ fetcher.calls <= fetcher.retries
  /\ Len(fetcher.outcomes) <= fetcher.calls
  /\ \A i \in 1..Len(fetcher.outcomes) :
       fetcher.outcomes[i] = "ok" => (i = Len(fetcher.outcomes) /\ fetcher.pc = "returned")
  /\ fetcher.pc = "returned"
       => /\ fetcher.outcomes # <<>> /\ fetcher.outcomes[Len(fetcher.outcomes)] = "ok"
          /\ fetcher.calls = Len(fetcher.outcomes)
  /\ fetcher.pc = "thrown"
       <=> /\ Terminated
           /\ Len(fetcher.outcomes) = fetcher.retries
           /\ \A i \in 1..Len(fetcher.outcomes) : Failed(i)
  /\ Len(fetcher.waited)
       = Cardinality({ i \in 1..Len(fetcher.outcomes) : Failed(i) /\ i < fetcher.retries })

\* C27: fetchSubstackFeed(feedUrl, retries) always terminates; it calls the
\* parser at most `retries` times, returns at the first attempt that succeeds,
\* throws its final error exactly when all `retries` attempts failed, and
\* waits between attempts only after a failed attempt that is not the last.
C27_FetchTerminates == []RetryDiscipline /\ <>Terminated

\* three attempts out of three failed: two waits, of 1 s and 2 s, none after
\* the last attempt, and the final error carries the last failure
C27_Witness ==
  /\ fetcher.pc = "thrown"
  /\ fetcher.retries = 3 /\ fetcher.calls = 3
  /\ fetcher.outcomes = << "ECONNREFUSED", "ECONNREFUSED", "TypeError" >>
  /\ fetcher.waited = << 1000, 2000 >>
  /\ fetcher.error = "Failed to fetch RSS feed after 3 attempts: TypeError"

\* --------------------------------------------------- exportToJSON, call by call
\* a path is the sequence of its characters
Md       == << ".", "m", "d" >>
Json     == << ".", "j", "s", "o", "n" >>
Cwd      == << "/", "w" >>
HomeDir  == << "/", "h" >>
NoHome   == << >>

\* String.prototype.startsWith, endsWith
StartsWith(cs, prefix) == Len(prefix) <= Len(cs) /\ SubSeq(cs, 1, Len(prefix)) = prefix
EndsWith(cs, suffix) ==
  Len(suffix) <= Len(cs) /\ SubSeq(cs, Len(cs) - Len(suffix) + 1, Len(cs)) = suffix

\* outputPath.replace(/\.md$/, '.json')
ReplaceMd(cs) ==
  IF EndsWith(cs, Md) THEN SubSeq(cs, 1, Len(cs) - Len(Md)) \o Json ELSE cs

\* path.resolve(p) on POSIX: relative paths start from the working directory;
\* empty and "." segments go, ".." takes the segment before it, and so does a
\* trailing slash
RECURSIVE Split(_, _)
Split(cs, cur) ==
  IF cs = <<>> THEN << cur >>
  ELSE IF Head(cs) = "/" THEN << cur >> \o Split(Tail(cs), <<>>)
  ELSE Split(Tail(cs), Append(cur, Head(cs)))

RECURSIVE Normalize(_, _)
Normalize(segs, acc) ==
  IF segs = <<>> THEN acc
  ELSE IF Head(segs) = <<>> \/ Head(segs) = << "." >> THEN Normalize(Tail(segs), acc)
  ELSE IF Head(segs) = << ".", "." >>
    THEN Normalize(Tail(segs), IF acc = <<>> THEN acc ELSE SubSeq(acc, 1, Len(acc) - 1))
  ELSE Normalize(Tail(segs), Append(acc, Head(segs)))

RECURSIVE Join(_)
Join(segs) == IF segs = <<>> THEN <<>> ELSE << "/" >> \o Head(segs) \o Join(Tail(segs))

Resolve(cs) ==
  LET absolute == IF StartsWith(cs, << "/" >>) THEN cs ELSE Cwd \o << "/" >> \o cs
      joined   == Join(Normalize(Split(absolute, <<>>), <<>>))
  IN  IF joined = <<>> THEN << "/" >> ELSE joined

\* const dangerousPaths = ['/etc', '/usr', '/bin', '/sbin', '/System', '/Library']
dangerousPaths ==
  << [ name |-> "/etc",     path |-> << "/", "e", "t", "c" >> ],
     [ name |-> "/usr",     path |-> << "/", "u", "s", "r" >> ],
     [ name |-> "/bin",     path |-> << "/", "b", "i", "n" >> ],
     [ name |-> "/sbin",    path |-> << "/", "s", "b", "i", "n" >> ],
     [ name |-> "/System",  path |-> << "/", "S", "y", "s", "t", "e", "m" >> ],
     [ name |-> "/Library", path |-> << "/", "L", "i", "b", "r", "a", "r", "y" >> ] >>

Rejected(message) == [ ok |-> FALSE, path |-> << >>, error |-> message ]

\* validateAndResolvePath(outputPath), with home = process.env.HOME ||
\* process.env.USERPROFILE (NoHome when neither is set)
ValidateAndResolvePath(outputPath, home) ==
  IF StartsWith(outputPath, << "~", "/" >>) /\ home = NoHome
    THEN Rejected("Cannot resolve home directory")
  ELSE
    LET resolvedPath == IF StartsWith(outputPath, << "~", "/" >>)
                          THEN home \o Tail(outputPath) ELSE outputPath
        absolutePath == Resolve(resolvedPath)
        hits == { i \in 1..Len(dangerousPaths) : StartsWith(absolutePath, dangerousPaths[i].path) }
    IN  IF ~EndsWith(absolutePath, Md) THEN Rejected("Output file must have .md extension")
        ELSE IF hits # {}
          THEN Rejected("Cannot write to system directory: "
                          \o dangerousPaths[CHOOSE i \in hits : \A j \in hits : i <= j].name)
        ELSE [ ok |-> TRUE, path |-> absolutePath, error |-> "" ]

\* exportToJSON(posts, outputPath): what it threw, or the file it wrote;
\* writeOk is whether writeFileSync succeeds (a failing mkdirSync is ignored)
ExportToJSON(ps, outputPath, home, writeOk) ==
  LET safePath == ValidateAndResolvePath(ReplaceMd(outputPath), home)
      call     == [ NoExport EXCEPT !.pc = "done", !.outputPath = outputPath, !.home = home,
                                    !.writeOk = writeOk ]
  IN  IF ~safePath.ok THEN [ call EXCEPT !.thrown = TRUE, !.error = safePath.error ]
      ELSE IF \E i \in 1..Len(ps) : ps[i].pubDate = InvalidDate
        THEN [ call EXCEPT !.thrown = TRUE, !.error = "RangeError" ]
      ELSE IF ~writeOk
        THEN [ call EXCEPT !.thrown = TRUE, !.error = "Failed to write file: EACCES" ]
      ELSE [ call EXCEPT !.path = safePath.path, !.content = EncodePosts(ps) ]

\* the paths a caller passes: /t/p.md, ~/p.md, p.md, /t/../w/p.md, /etc/p.md,
\* /t/p.json, /t/p.md/, /t/p.md.md
ExportPaths ==
  { << "/", "t", "/", "p" >> \o Md,
    << "~", "/", "p" >> \o Md,
    << "p" >> \o Md,
    << "/", "t", "/", ".", ".", "/", "w", "/", "p" >> \o Md,
    << "/", "e", "t", "c", "/", "p" >> \o Md,
    << "/", "t", "/", "p" >> \o Json,
    << "/", "t", "/", "p" >> \o Md \o << "/" >>,
    << "/", "t", "/", "p" >> \o Md \o Md }

InitExport ==
  /\ exported = NoExport
  /\ fetcher = NoFetcher
  /\ request = NoRequest
  /\ response = NoResponse
  /\ posts \in Collections
  /\ searchIndex = Ids(posts)
  /\ lastFetched = 0
  /\ now = 0
  /\ disk = NoFile
  /\ pc = [ p \in Procs |-> IF p = Main THEN "connected" ELSE "idle" ]
  /\ todo = [ p \in Procs |-> <<>> ]
  /\ loaded = FALSE
  /\ fetch = [ p \in Procs |-> IF p = Main THEN "ok" ELSE "none" ]
  /\ view = [ q \in Queries |-> NoView ]
  /\ writable = TRUE

\* exportToJSON is called on the articles of the cache
CallExportToJSON(outputPath, home, writeOk) ==
  /\ exported.pc = "idle"
  /\ exported' = ExportToJSON(posts, outputPath, home, writeOk)
  /\ UNCHANGED << cacheVars, fetcher >>

NextExport ==
  \E outputPath \in ExportPaths, home \in { HomeDir, NoHome }, writeOk \in BOOLEAN :
    CallExportToJSON(outputPath, home, writeOk)

ExportSpec == InitExport /\ [][NextExport]_vars

\* ---------------------------------------------------- claims on the export
\* the path the call would write to if the extension were not looked at
ExpectedJsonPath ==
  Resolve(IF StartsWith(exported.outputPath, << "~", "/" >>)
            THEN exported.home \o Tail(ReplaceMd(exported.outputPath))
            ELSE ReplaceMd(exported.outputPath))

\* C28: exportToJSON(posts, outputPath) with an outputPath that ends in '.md'
\* and lies outside the blocked system directories writes the posts, their
\* dates as ISO strings, to that path with '.md' replaced by '.json', and
\* returns without throwing (the home directory being known where the path
\* needs it, and the file system accepting the write).
C28_ExportToJSONWrites ==
  ( /\ exported.pc = "done"
    /\ EndsWith(exported.outputPath, Md)
    /\ \A i \in 1..Len(dangerousPaths) : ~StartsWith(ExpectedJsonPath, dangerousPaths[i].path)
    /\ StartsWith(exported.outputPath, << "~", "/" >>) => exported.home # NoHome
    /\ exported.writeOk )
    => /\ ~exported.thrown
       /\ exported.path = ExpectedJsonPath
       /\ exported.content
            = [ i \in 1..Len(posts) |->
                  [ id |-> posts[i].id, link |-> posts[i].link,
                    pubDate |-> ToISOString(posts[i].pubDate), title |-> posts[i].title ] ]

\* ------------------------------------------ frame claims on the cache (Spec)
\* the cache is fresh: lastFetched is there and now - lastFetched <= TTL
Fresh == lastFetched \notin {Null, InvalidDate} /\ now - lastFetched <= cacheTTL

\* a step of query q that is not part of a refresh of its own: its start on a
\* fresh cache, and whatever it does afterwards without having called the feed
FreshQueryStep(q) ==
  /\ pc'[q] # pc[q]
  /\ fetch[q] = "none"
  /\ pc[q] = "idle" => Fresh

\* C29: a query issued while the cache is fresh calls the feed source at no
\* point and none of its steps changes the collection, the search index,
\* lastFetched or the snapshot file - for the queries that answer from
\* this.posts (getPosts, recent, title, url, date range) and for the search.
C29_FreshQueryTouchesNothing ==
  [][ \A q \in Queries :
        FreshQueryStep(q)
          => /\ fetch'[q] = "none" /\ pc'[q] \notin {"fetching", "indexing"}
             /\ posts' = posts /\ searchIndex' = searchIndex
             /\ lastFetched' = lastFetched /\ disk' = disk ]_vars

\* at the last moment of freshness (age = TTL) a search went through the gate
\* without a fetch and is waiting for the index, on a populated cache
C29_Witness ==
  /\ Fresh /\ now - lastFetched = cacheTTL
  /\ posts # <<>>
  /\ \E q \in Queries : pc[q] = "searching" /\ fetch[q] = "none"

\* the cache is stale: no fetch yet, or the last one longer ago than the TTL
Stale == lastFetched = Null \/ (lastFetched # InvalidDate /\ now - lastFetched > cacheTTL)

\* C30: the step in which a refresh's feed fetch fails changes neither
\* lastFetched nor the search index nor the snapshot file (nor the
\* collection); so a cache that was stale is still stale after it, and a query
\* that starts on a stale cache starts a refresh of its own.
C30_FailedRefreshChangesNothing ==
  [][ /\ \A p \in Procs :
           (pc[p] = "fetching" /\ fetch'[p] = "failed")
             => /\ lastFetched' = lastFetched /\ searchIndex' = searchIndex
                /\ disk' = disk /\ posts' = posts
                /\ Stale => (Stale)'
      /\ \A q \in Queries :
           (pc[q] = "idle" /\ pc'[q] # "idle" /\ Stale)
             => (pc'[q] = "fetching" /\ fetch'[q] = "pending") ]_vars

\* a query's refresh of a stale, populated cache has failed - the cache is as
\* it was, still stale - and the next query has started a refresh of its own
C30_Witness ==
  /\ posts # <<>> /\ Stale /\ lastFetched # Null
  /\ \E p \in Queries :
       /\ pc[p] = "done" /\ fetch[p] = "failed"
       /\ \E q \in Queries \ {p} : pc[q] = "fetching" /\ fetch[q] = "pending"

\* C31: a refresh whose fetch fails raises its error to the caller exactly when
\* the collection in memory is empty at that moment (a tool call is answered
\* with the error, main exits); otherwise the caller goes on. An empty
\* collection left by an earlier successful refresh counts as empty: the later
\* failure raises.
C31_FailureRaisesIffEmpty ==
  [][ \A p \in Procs :
        (pc[p] = "fetching" /\ fetch'[p] = "failed")
          => /\ pc'[p] \in {"error", "exited"} <=> posts = <<>>
             /\ pc'[p] = "error" <=> (p # Main /\ posts = <<>>)
             /\ posts # <<>>
                  => pc'[p] \in (IF p = Main THEN {"connected"} ELSE {"searching", "done"}) ]_vars

\* an earlier refresh succeeded with no articles (lastFetched is set, the
\* collection is empty) and a tool call's refresh then failed: the call got
\* the error
C31_Witness ==
  /\ lastFetched # Null /\ posts = <<>>
  /\ \A p \in Procs : ~InRefresh(p)
  /\ \E q \in Queries : pc[q] = "error" /\ fetch[q] = "failed"

\* the server is up and no operation is in the middle of a refresh
Settled == pc[Main] = "connected" /\ \A p \in Procs : ~InRefresh(p)

\* C32: whenever the snapshot writes succeed, the snapshot on disk agrees with
\* memory in every state between operations - after initialize and after any
\* sequence of queries and refreshes: its version is CACHE_VERSION, its feedUrl
\* the configured feed URL, its fetchedAt is lastFetched, and its articles are
\* those of the collection, field by field and in the same order.
C32_SnapshotAgreesWithMemory ==
  (writable /\ Settled)
    => /\ disk.state = "ok"
       /\ disk.version = "1.0.0"
       /\ disk.feedUrl = "https://fejl40.substack.com/feed"
       /\ lastFetched \in Times /\ disk.lastFetched = ToISOString(lastFetched)
       /\ Len(disk.posts) = Len(posts)
       /\ \A i \in 1..Len(posts) :
            /\ disk.posts[i].id = posts[i].id /\ disk.posts[i].link = posts[i].link
            /\ disk.posts[i].title = posts[i].title
            /\ posts[i].pubDate \in Times
            /\ disk.posts[i].pubDate = ToISOString(posts[i].pubDate)

\* every call is over; the last refresh, some time ago, fetched two articles
\* later than the start-up, and the file holds them with that fetch time
C32_Witness ==
  /\ writable /\ Settled
  /\ \A q \in Queries : pc[q] = "idle"
  /\ Len(posts) = 2 /\ lastFetched > 0 /\ now > lastFetched
  /\ disk.lastFetched = ToISOString(lastFetched)
  /\ disk.posts = EncodePosts(posts)

====
